---- MODULE Spec2Model ----
(***************************************************************************)
(* cargox: run a Cargo binary on demand.  The model covers the command     *)
(* line split (cli.rs), the install-root discovery (paths.rs), the         *)
(* installed catalog (versions.rs), the run-plan resolver (main.rs) and    *)
(* the executor and its containment check (executor.rs).                   *)
(*                                                                         *)
(* Text (file names, arguments, versions) is a sequence of one-character   *)
(* strings, so that prefixes, suffixes and parsing are computed.           *)
(* A path is a sequence of components (each a text); <<>> is "/".          *)
(***************************************************************************)
EXTENDS Integers, Sequences, FiniteSets, TLC

----------------------------------------------------------------------------
(* Bounds of the model *)

\* at most this many entries in the managed binary directory
MaxFiles == 3
\* at most this many command-line arguments after the program name
MaxArgs == 3
\* symbolic links followed while resolving one path
MaxHops == 3

----------------------------------------------------------------------------
(* Text helpers *)

Digits == {"0", "1", "2", "3", "4", "5", "6", "7", "8", "9"}

\* the characters of the model in ASCII order
AsciiOrder ==
    << " ", "*", "+", "-", ".", "0", "1", "2", "3", "4", "5", "6", "7", "8", "9",
       "<", "=", ">", "@", "^", "a", "b", "c", "d", "e", "f", "g", "h", "i",
       "j", "k", "l", "m", "n", "o", "p", "q", "r", "s", "t", "u", "v", "w",
       "x", "y", "z", "~" >>

CharCode(c) == CHOOSE i \in 1..Len(AsciiOrder) : AsciiOrder[i] = c

DigitVal(c) == CharCode(c) - CharCode("0")

IsAlnumDash(c) == c = "-" \/ c \in Digits \/ (CharCode(c) >= CharCode("a") /\ CharCode(c) <= CharCode("z"))

\* str::starts_with / strip_prefix / strip_suffix
StartsWith(s, p) == Len(s) >= Len(p) /\ SubSeq(s, 1, Len(p)) = p

EndsWith(s, p) == Len(s) >= Len(p) /\ SubSeq(s, Len(s) - Len(p) + 1, Len(s)) = p

DropPrefix(s, p) == SubSeq(s, Len(p) + 1, Len(s))

DropSuffix(s, p) == SubSeq(s, 1, Len(s) - Len(p))

\* index of the first c in s, 0 if there is none
IndexOf(s, c) ==
    IF \E i \in 1..Len(s) : s[i] = c
    THEN CHOOSE i \in 1..Len(s) : s[i] = c /\ \A j \in 1..(i - 1) : s[j] # c
    ELSE 0

\* s split at every c, as a sequence of texts
RECURSIVE SplitOn(_, _)
SplitOn(s, c) ==
    LET i == IndexOf(s, c)
    IN  IF i = 0 THEN <<s>>
        ELSE <<SubSeq(s, 1, i - 1)>> \o SplitOn(SubSeq(s, i + 1, Len(s)), c)

\* the decimal value of a text of digits
RECURSIVE NumVal(_)
NumVal(s) ==
    IF s = <<>> THEN 0
    ELSE 10 * NumVal(SubSeq(s, 1, Len(s) - 1)) + DigitVal(s[Len(s)])

AllDigits(s) == s # <<>> /\ \A i \in 1..Len(s) : s[i] \in Digits

\* a numeric field of a version: digits with no leading zero
IsNumeric(s) == AllDigits(s) /\ (Len(s) > 1 => s[1] # "0")

\* three-way comparison results
Cmp(a, b) == IF a < b THEN -1 ELSE IF a > b THEN 1 ELSE 0

\* byte-wise comparison of two texts
RECURSIVE CmpText(_, _)
CmpText(a, b) ==
    IF a = <<>> /\ b = <<>> THEN 0
    ELSE IF a = <<>> THEN -1
    ELSE IF b = <<>> THEN 1
    ELSE IF a[1] # b[1] THEN Cmp(CharCode(a[1]), CharCode(b[1]))
    ELSE CmpText(Tail(a), Tail(b))

----------------------------------------------------------------------------
(* semver::Version as the catalog uses it: parse and the total order *)

NoVersion == [ok |-> FALSE, major |-> 0, minor |-> 0, patch |-> 0, pre |-> <<>>, build |-> <<>>]

\* a pre-release: dot-separated identifiers over [0-9a-z-], numeric ones without leading zero
ValidPre(s) ==
    \A id \in { SplitOn(s, ".")[i] : i \in 1..Len(SplitOn(s, ".")) } :
        /\ id # <<>>
        /\ \A i \in 1..Len(id) : IsAlnumDash(id[i])
        /\ (AllDigits(id) => IsNumeric(id))

\* build metadata: dot-separated identifiers over [0-9a-z-]
ValidBuild(s) ==
    \A id \in { SplitOn(s, ".")[i] : i \in 1..Len(SplitOn(s, ".")) } :
        id # <<>> /\ \A i \in 1..Len(id) : IsAlnumDash(id[i])

\* Version::parse: MAJOR.MINOR.PATCH[-PRE][+BUILD]
VersionParse(s) ==
    LET plus  == IndexOf(s, "+")
        core0 == IF plus = 0 THEN s ELSE SubSeq(s, 1, plus - 1)
        build == IF plus = 0 THEN <<>> ELSE SubSeq(s, plus + 1, Len(s))
        dash  == IndexOf(core0, "-")
        core  == IF dash = 0 THEN core0 ELSE SubSeq(core0, 1, dash - 1)
        pre   == IF dash = 0 THEN <<>> ELSE SubSeq(core0, dash + 1, Len(core0))
        nums  == SplitOn(core, ".")
    IN  IF /\ Len(nums) = 3
           /\ \A i \in 1..3 : IsNumeric(nums[i])
           /\ (dash # 0 => ValidPre(pre))
           /\ (plus # 0 => ValidBuild(build))
        THEN [ok |-> TRUE, major |-> NumVal(nums[1]), minor |-> NumVal(nums[2]),
              patch |-> NumVal(nums[3]), pre |-> pre, build |-> build]
        ELSE NoVersion

\* one identifier against another: numeric below alphanumeric, numbers by value,
\* the rest byte-wise
CmpIdent(a, b) ==
    IF AllDigits(a) /\ AllDigits(b)
    THEN (IF NumVal(a) # NumVal(b) THEN Cmp(NumVal(a), NumVal(b)) ELSE Cmp(Len(a), Len(b)))
    ELSE IF AllDigits(a) THEN -1
    ELSE IF AllDigits(b) THEN 1
    ELSE CmpText(a, b)

RECURSIVE CmpIdents(_, _)
CmpIdents(a, b) ==
    IF a = <<>> /\ b = <<>> THEN 0
    ELSE IF a = <<>> THEN -1
    ELSE IF b = <<>> THEN 1
    ELSE IF CmpIdent(a[1], b[1]) # 0 THEN CmpIdent(a[1], b[1])
    ELSE CmpIdents(Tail(a), Tail(b))

\* Prerelease::cmp: no pre-release is above every pre-release
CmpPre(a, b) ==
    IF a = <<>> /\ b = <<>> THEN 0
    ELSE IF a = <<>> THEN 1
    ELSE IF b = <<>> THEN -1
    ELSE CmpIdents(SplitOn(a, "."), SplitOn(b, "."))

\* BuildMetadata::cmp: no build metadata is below any build metadata
CmpBuild(a, b) ==
    IF a = <<>> /\ b = <<>> THEN 0
    ELSE IF a = <<>> THEN -1
    ELSE IF b = <<>> THEN 1
    ELSE CmpIdents(SplitOn(a, "."), SplitOn(b, "."))

\* Version::cmp
CmpVersion(a, b) ==
    IF a.major # b.major THEN Cmp(a.major, b.major)
    ELSE IF a.minor # b.minor THEN Cmp(a.minor, b.minor)
    ELSE IF a.patch # b.patch THEN Cmp(a.patch, b.patch)
    ELSE IF CmpPre(a.pre, b.pre) # 0 THEN CmpPre(a.pre, b.pre)
    ELSE CmpBuild(a.build, b.build)

----------------------------------------------------------------------------
(* semver::VersionReq: a list of comparators, and VersionReq::matches.     *)
(* A comparator is [op, major, minor, patch, pre]; minor and patch are -1  *)
(* when the requirement leaves them out (Option::None).                    *)

Absent == -1

Comparator(op, major, minor, patch, pre) ==
    [op |-> op, major |-> major, minor |-> minor, patch |-> patch, pre |-> pre]

matches_exact(c, v) ==
    /\ v.major = c.major
    /\ (c.minor # Absent => v.minor = c.minor)
    /\ (c.patch # Absent => v.patch = c.patch)
    /\ v.pre = c.pre

matches_greater(c, v) ==
    IF v.major # c.major THEN v.major > c.major
    ELSE IF c.minor = Absent THEN FALSE
    ELSE IF v.minor # c.minor THEN v.minor > c.minor
    ELSE IF c.patch = Absent THEN FALSE
    ELSE IF v.patch # c.patch THEN v.patch > c.patch
    ELSE CmpPre(v.pre, c.pre) > 0

matches_less(c, v) ==
    IF v.major # c.major THEN v.major < c.major
    ELSE IF c.minor = Absent THEN FALSE
    ELSE IF v.minor # c.minor THEN v.minor < c.minor
    ELSE IF c.patch = Absent THEN FALSE
    ELSE IF v.patch # c.patch THEN v.patch < c.patch
    ELSE CmpPre(v.pre, c.pre) < 0

matches_tilde(c, v) ==
    IF v.major # c.major THEN FALSE
    ELSE IF c.minor # Absent /\ v.minor # c.minor THEN FALSE
    ELSE IF c.patch # Absent /\ v.patch # c.patch THEN v.patch > c.patch
    ELSE CmpPre(v.pre, c.pre) >= 0

matches_caret(c, v) ==
    IF v.major # c.major THEN FALSE
    ELSE IF c.minor = Absent THEN TRUE
    ELSE IF c.patch = Absent
         THEN (IF c.major > 0 THEN v.minor >= c.minor ELSE v.minor = c.minor)
    ELSE IF c.major > 0
         THEN (IF v.minor # c.minor THEN v.minor > c.minor
               ELSE IF v.patch # c.patch THEN v.patch > c.patch
               ELSE CmpPre(v.pre, c.pre) >= 0)
    ELSE IF c.minor > 0
         THEN (IF v.minor # c.minor THEN FALSE
               ELSE IF v.patch # c.patch THEN v.patch > c.patch
               ELSE CmpPre(v.pre, c.pre) >= 0)
    ELSE IF v.minor # c.minor \/ v.patch # c.patch THEN FALSE
    ELSE CmpPre(v.pre, c.pre) >= 0

matches_comparator(c, v) ==
    CASE c.op = "Exact"     -> matches_exact(c, v)
      [] c.op = "Wildcard"  -> matches_exact(c, v)
      [] c.op = "Greater"   -> matches_greater(c, v)
      [] c.op = "GreaterEq" -> matches_exact(c, v) \/ matches_greater(c, v)
      [] c.op = "Less"      -> matches_less(c, v)
      [] c.op = "LessEq"    -> matches_exact(c, v) \/ matches_less(c, v)
      [] c.op = "Tilde"     -> matches_tilde(c, v)
      [] c.op = "Caret"     -> matches_caret(c, v)

\* a pre-release version matches only if some comparator names its very
\* MAJOR.MINOR.PATCH with a pre-release of its own
pre_is_compatible(c, v) ==
    c.major = v.major /\ c.minor = v.minor /\ c.patch = v.patch /\ c.pre # <<>>

\* VersionReq::matches: req is a sequence of comparators (empty for "*")
ReqMatches(req, v) ==
    /\ \A i \in 1..Len(req) : matches_comparator(req[i], v)
    /\ (v.pre = <<>> \/ \E i \in 1..Len(req) : pre_is_compatible(req[i], v))

----------------------------------------------------------------------------
(* The filesystem: a function from the absolute paths that exist to their  *)
(* nodes.  "/" (the empty path) is always a directory.  A node is a        *)
(* regular file (x: may be executed), a directory or a symbolic link.      *)

File(x)  == [k |-> "file", to |-> <<>>, x |-> x]
Dir      == [k |-> "dir", to |-> <<>>, x |-> TRUE]
Link(to) == [k |-> "link", to |-> to, x |-> TRUE]

Parent(p) == SubSeq(p, 1, Len(p) - 1)

\* Path::join with one relative component
Join(p, name) == Append(p, name)

\* Path::starts_with: whole components only
PathStartsWith(p, base) == Len(p) >= Len(base) /\ SubSeq(p, 1, Len(base)) = base

Ok(fs, path)  == [ok |-> TRUE, fs |-> fs, path |-> path, err |-> "none"]
Err(fs, err)  == [ok |-> FALSE, fs |-> fs, path |-> <<>>, err |-> err]

\* realpath: done is resolved already, rest is still to walk
RECURSIVE Resolve(_, _, _, _)
Resolve(fs, done, rest, hops) ==
    IF rest = <<>> THEN Ok(fs, done)
    ELSE IF done # <<>> /\ fs[done].k # "dir" THEN Err(fs, "NotADirectory")
    ELSE LET q == Join(done, Head(rest))
         IN  IF q \notin DOMAIN fs THEN Err(fs, "NotFound")
             ELSE IF fs[q].k = "link"
                  THEN (IF hops = 0 THEN Err(fs, "FilesystemLoop")
                        ELSE Resolve(fs, <<>>, fs[q].to \o Tail(rest), hops - 1))
             ELSE Resolve(fs, q, Tail(rest), hops)

\* Path::canonicalize
canonicalize(fs, p) == Resolve(fs, <<>>, p, MaxHops)

\* the node a path leads to, symbolic links followed
NodeAt(fs, p) ==
    LET node(c) == IF ~c.ok THEN [k |-> "none", to |-> <<>>, x |-> FALSE]
                   ELSE IF c.path = <<>> THEN Dir
                   ELSE fs[c.path]
    IN  node(canonicalize(fs, p))

\* Path::exists, Path::is_file, Path::is_dir (all follow symbolic links)
exists(fs, p) == canonicalize(fs, p).ok

is_file(fs, p) == NodeAt(fs, p).k = "file"

is_dir(fs, p) == NodeAt(fs, p).k = "dir"

\* mkdir(2): the parent must be a directory, the name must be free, the
\* filesystem must accept writes
mkdir(fs, writable, p) ==
    LET make(q) == IF q \in DOMAIN fs THEN Err(fs, "AlreadyExists")
                   ELSE IF ~writable THEN Err(fs, "PermissionDenied")
                   ELSE Ok((q :> Dir) @@ fs, p)
        under(par) == IF ~par.ok THEN Err(fs, par.err)
                      ELSE IF ~is_dir(fs, par.path) THEN Err(fs, "NotADirectory")
                      ELSE make(Join(par.path, p[Len(p)]))
    IN  IF p = <<>> THEN Err(fs, "AlreadyExists")
        ELSE under(canonicalize(fs, Parent(p)))

\* fs::create_dir_all
RECURSIVE create_dir_all(_, _, _)
create_dir_all(fs, writable, p) ==
    LET settle(f, made) == IF made.ok THEN made
                           ELSE IF is_dir(f, p) THEN Ok(f, p)
                           ELSE made
        above(up) == IF ~up.ok THEN up ELSE settle(up.fs, mkdir(up.fs, writable, p))
        first(made) == IF ~made.ok /\ made.err = "NotFound"
                       THEN above(create_dir_all(fs, writable, Parent(p)))
                       ELSE settle(fs, made)
    IN  first(mkdir(fs, writable, p))

\* the names fs::read_dir yields for a directory
DirNames(fs, p) ==
    LET under(dir) == { q[Len(q)] : q \in { r \in DOMAIN fs : r # <<>> /\ Parent(r) = dir } }
    IN  under(canonicalize(fs, p).path)

\* fs::read_dir: fails when the path is no readable directory
read_dir(fs, readable, p) ==
    LET open(c) == IF ~c.ok THEN Err(fs, c.err)
                   ELSE IF ~is_dir(fs, c.path) THEN Err(fs, "NotADirectory")
                   ELSE IF ~readable THEN Err(fs, "PermissionDenied")
                   ELSE Ok(fs, p)
    IN  open(canonicalize(fs, p))

----------------------------------------------------------------------------
(* Results of the program's fallible functions (anyhow::Result): a value   *)
(* and the filesystem the call leaves, or an error with its context        *)
(* message and the OS-level cause it wraps ("none" when it wraps nothing). *)

NoError == [msg |-> "none", cause |-> "none"]

Good(fs, val) == [ok |-> TRUE, fs |-> fs, val |-> val, err |-> NoError]

Bad(fs, msg, cause) == [ok |-> FALSE, fs |-> fs, val |-> <<>>, err |-> [msg |-> msg, cause |-> cause]]

\* Option<PathBuf> of the environment
NoPath == [some |-> FALSE, path |-> <<>>]

SomePath(p) == [some |-> TRUE, path |-> p]

\* texts the program itself spells
T_bin == <<"b", "i", "n">>

T_exe == <<".", "e", "x", "e">>

T_dash == <<"-">>

T_local == <<".", "l", "o", "c", "a", "l">>

T_share == <<"s", "h", "a", "r", "e">>

T_cargox == <<"c", "a", "r", "g", "o", "x">>

----------------------------------------------------------------------------
(* paths.rs.  env is the process environment: override (CARGOX_INSTALL_DIR),*)
(* dataDir (what ProjectDirs::from finds), home (HOME or USERPROFILE),      *)
(* writable / readable (whether the filesystem accepts mkdir / lets the     *)
(* binary directory be listed) and windows (the build target).              *)

\* fs::create_dir_all(path).with_context(msg)?, then Ok(path)
Created(path, msg, c) == IF c.ok THEN Good(c.fs, path) ELSE Bad(c.fs, msg, c.err)

get_install_dir(env, fs) ==
    LET create(path, msg) == Created(path, msg, create_dir_all(fs, env.writable, path))
    IN  IF env.override.some THEN Good(fs, env.override.path)
        ELSE IF env.dataDir.some
             THEN create(env.dataDir.path, "failed to create data directory")
        ELSE IF env.home.some
             THEN create(env.home.path \o <<T_local, T_share, T_cargox>>,
                         "failed to create fallback directory")
        ELSE Bad(fs, "unable to determine install directory", "none")

----------------------------------------------------------------------------
(* versions.rs: the installed catalog *)

NoBinary == [version |-> NoVersion, path |-> <<>>]

NoneBinary == [some |-> FALSE, bin |-> NoBinary]

SomeBinary(b) == [some |-> TRUE, bin |-> b]

\* Display of a Version, for the versions the registry returns (no pre-release)
RECURSIVE NumText(_)
NumText(n) ==
    IF n < 10 THEN <<AsciiOrder[CharCode("0") + n]>>
    ELSE NumText(n \div 10) \o <<AsciiOrder[CharCode("0") + (n % 10)]>>

VersionText(v) ==
    NumText(v.major) \o <<".">> \o NumText(v.minor) \o <<".">> \o NumText(v.patch)
        \o (IF v.pre = <<>> THEN <<>> ELSE <<"-">> \o v.pre)
        \o (IF v.build = <<>> THEN <<>> ELSE <<"+">> \o v.build)

versioned_binary_name(binary, version) == binary \o T_dash \o VersionText(version)

ensure_bin_dir(env, fs) ==
    LET create(f, bin) == Created(bin, "failed to create binary directory",
                                  create_dir_all(f, env.writable, bin))
        within(g) == IF ~g.ok THEN g ELSE create(g.fs, Join(g.val, T_bin))
    IN  within(get_install_dir(env, fs))

versioned_binary_path(env, fs, binary, version) ==
    LET named(b, name) == IF ~b.ok THEN b
                          ELSE IF env.windows THEN Good(b.fs, Join(b.val, name \o T_exe))
                          ELSE Good(b.fs, Join(b.val, name))
    IN  named(ensure_bin_dir(env, fs), versioned_binary_name(binary, version))

\* sort_by(|a, b| a.version.cmp(&b.version)) is stable: e goes after every
\* entry that is not above it
RECURSIVE InsertByVersion(_, _)
InsertByVersion(sorted, e) ==
    IF sorted = <<>> THEN <<e>>
    ELSE IF CmpVersion(sorted[Len(sorted)].version, e.version) <= 0 THEN Append(sorted, e)
    ELSE Append(InsertByVersion(SubSeq(sorted, 1, Len(sorted) - 1), e), sorted[Len(sorted)])

RECURSIVE SortByVersion(_)
SortByVersion(list) ==
    IF list = <<>> THEN <<>>
    ELSE InsertByVersion(SortByVersion(SubSeq(list, 1, Len(list) - 1)), list[Len(list)])

\* one directory entry of the scan: kept with its version, or skipped
ScanEntry(env, fs, bin_dir, binary, file_name) ==
    LET entry(path, ver) == [keep |-> is_file(fs, path) /\ ver.ok, version |-> ver, path |-> path]
        parsed(name, prefix) == IF StartsWith(name, prefix)
                                THEN VersionParse(DropPrefix(name, prefix)) ELSE NoVersion
        stripped(name) == entry(Join(bin_dir, file_name), parsed(name, binary \o T_dash))
    IN  IF env.windows /\ EndsWith(file_name, T_exe)
        THEN stripped(DropSuffix(file_name, T_exe))
        ELSE stripped(file_name)

Kept(e) == e.keep

\* order: the sequence in which read_dir yields the names (the OS decides)
list_installed_versions(env, fs, binary, order) ==
    LET installed(kept) == [i \in 1..Len(kept) |->
                               [version |-> kept[i].version, path |-> kept[i].path]]
        scan(f, bin_dir) == SelectSeq([i \in 1..Len(order) |->
                                          ScanEntry(env, f, bin_dir, binary, order[i])], Kept)
        read(b, rd) == IF ~rd.ok /\ rd.err = "NotFound" THEN Good(b.fs, <<>>)
                       ELSE IF ~rd.ok
                            THEN Bad(b.fs, "failed to read installed binaries", rd.err)
                       ELSE Good(b.fs, SortByVersion(installed(scan(b.fs, b.val))))
        list(b) == IF ~b.ok THEN b
                   ELSE IF ~exists(b.fs, b.val) THEN Good(b.fs, <<>>)
                   ELSE read(b, read_dir(b.fs, env.readable, b.val))
    IN  list(ensure_bin_dir(env, fs))

\* the mutant: the first entry of the list that matches
RECURSIVE FindFirst(_, _)
FindFirst(list, requirement) ==
    IF list = <<>> THEN NoneBinary
    ELSE IF ReqMatches(requirement, Head(list).version) THEN SomeBinary(Head(list))
    ELSE FindFirst(Tail(list), requirement)

\* into_iter().rev().find(..): the last entry of the list that matches
RECURSIVE FindLast(_, _)
FindLast(list, requirement) ==
    IF list = <<>> THEN NoneBinary
    ELSE IF ReqMatches(requirement, list[Len(list)].version) THEN SomeBinary(list[Len(list)])
    ELSE FindLast(SubSeq(list, 1, Len(list) - 1), requirement)

find_installed_version(env, fs, binary, requirement, order) ==
    LET find(l) == IF ~l.ok THEN l ELSE Good(l.fs, FindLast(l.val, requirement))
    IN  find(list_installed_versions(env, fs, binary, order))

\* Vec::pop
latest_installed(env, fs, binary, order) ==
    LET pop(l) == IF ~l.ok THEN l
                  ELSE IF l.val = <<>> THEN Good(l.fs, NoneBinary)
                  ELSE Good(l.fs, SomeBinary(l.val[Len(l.val)]))
    IN  pop(list_installed_versions(env, fs, binary, order))

\* the orders read_dir may yield the entries of the binary directory in, once
\* ensure_bin_dir has run
RECURSIVE Perms(_)
Perms(S) ==
    IF S = {} THEN { <<>> }
    ELSE UNION { { <<x>> \o rest : rest \in Perms(S \ {x}) } : x \in S }

ScanOrders(env, fs) ==
    LET orders(b) == IF b.ok /\ exists(b.fs, b.val) THEN Perms(DirNames(b.fs, b.val))
                     ELSE {<<>>}
    IN  orders(ensure_bin_dir(env, fs))

----------------------------------------------------------------------------
(* main.rs: the run-plan resolver.  A target is [crate_name, version,      *)
(* binary]; its version is a VersionSpec: [kind |-> "Unspecified"],        *)
(* "Latest" or "Requirement" with req, the parsed VersionReq.  reply is    *)
(* what the registry answers if it is asked: a version, or a failure.      *)

Unspecified == [kind |-> "Unspecified", req |-> <<>>]

Latest == [kind |-> "Latest", req |-> <<>>]

Requirement(req) == [kind |-> "Requirement", req |-> req]

UseInstalled(path) == [kind |-> "UseInstalled", path |-> path, version |-> NoVersion]

InstallAndRun(version) == [kind |-> "InstallAndRun", path |-> <<>>, version |-> version]

NoPlan == [kind |-> "none", path |-> <<>>, version |-> NoVersion]

RegistryReply(version) == [ok |-> TRUE, version |-> version, cause |-> "none"]

RegistryFailure(cause) == [ok |-> FALSE, version |-> NoVersion, cause |-> cause]

\* the outcome of a resolution: the plan or the error, the filesystem it
\* leaves, and the registry operations it invoked, in order
Planned(fs, plan, asked) ==
    [ok |-> TRUE, fs |-> fs, plan |-> plan, err |-> NoError, asked |-> asked]

Failed(fs, err, asked) ==
    [ok |-> FALSE, fs |-> fs, plan |-> NoPlan, err |-> err, asked |-> asked]

\* one call of the registry: the operation, the crate, the requirement if any
NoReq == [some |-> FALSE, req |-> <<>>]

SomeReq(req) == [some |-> TRUE, req |-> req]

Query(op, crate, req) == [op |-> op, crate |-> crate, req |-> req]

\* the mutant: a lookup that failed is made once more before giving up
FetchOutcomeRetrying(fs, reply, query) ==
    IF reply.ok THEN Planned(fs, InstallAndRun(reply.version), <<query>>)
    ELSE Failed(fs, [msg |-> "registry lookup failed", cause |-> reply.cause],
                <<query, query>>)

\* registry::fetch_latest_version and fetch_highest_matching_version, as the
\* resolver sees them: the reply, or the error it propagates
FetchOutcome(fs, reply, query) ==
    IF reply.ok THEN Planned(fs, InstallAndRun(reply.version), <<query>>)
    ELSE Failed(fs, [msg |-> "registry lookup failed", cause |-> reply.cause], <<query>>)

\* Some(installed) => UseInstalled, None => the registry is asked
InstalledOrFetch(found, reply, query) ==
    IF ~found.ok THEN Failed(found.fs, found.err, <<>>)
    ELSE IF found.val.some THEN Planned(found.fs, UseInstalled(found.val.bin.path), <<>>)
    ELSE FetchOutcome(found.fs, reply, query)

\* the mutant: the registry is asked whatever is installed
resolve_unspecified_remote(env, fs, target, force, order, reply) ==
    FetchOutcome(fs, reply, Query("latest_version", target.crate_name, NoReq))

resolve_unspecified(env, fs, target, force, order, reply) ==
    IF ~force
    THEN InstalledOrFetch(latest_installed(env, fs, target.binary, order), reply,
                          Query("latest_version", target.crate_name, NoReq))
    ELSE FetchOutcome(fs, reply, Query("latest_version", target.crate_name, NoReq))

\* the mutant: an installed version equal to the remote one is installed again
resolve_latest_strict(env, fs, target, force, order, reply) ==
    LET asked_ == <<Query("latest_version", target.crate_name, NoReq)>>
        compare(li) ==
            IF ~li.ok THEN Failed(li.fs, li.err, <<>>)
            ELSE IF ~reply.ok THEN Failed(li.fs, [msg |-> "registry lookup failed",
                                                  cause |-> reply.cause], asked_)
            ELSE IF force THEN Planned(li.fs, InstallAndRun(reply.version), asked_)
            ELSE IF li.val.some /\ CmpVersion(li.val.bin.version, reply.version) > 0
                 THEN Planned(li.fs, UseInstalled(li.val.bin.path), asked_)
            ELSE Planned(li.fs, InstallAndRun(reply.version), asked_)
    IN  compare(latest_installed(env, fs, target.binary, order))

resolve_latest(env, fs, target, force, order, reply) ==
    LET fetched(f) == FetchOutcome(f, reply, Query("latest_version", target.crate_name, NoReq))
        decide(li, remote) ==
            IF ~remote.ok \/ force THEN remote
            ELSE IF li.val.some /\ CmpVersion(li.val.bin.version, reply.version) >= 0
                 THEN Planned(li.fs, UseInstalled(li.val.bin.path), remote.asked)
            ELSE remote
        compare(li) == IF ~li.ok THEN Failed(li.fs, li.err, <<>>) ELSE decide(li, fetched(li.fs))
    IN  compare(latest_installed(env, fs, target.binary, order))

\* the mutant: the newest installed version is used whatever the requirement
resolve_requirement_newest(env, fs, target, force, requirement, order, reply) ==
    IF ~force
    THEN InstalledOrFetch(latest_installed(env, fs, target.binary, order), reply,
                          Query("highest_matching_version", target.crate_name,
                                SomeReq(requirement)))
    ELSE FetchOutcome(fs, reply, Query("highest_matching_version", target.crate_name,
                                       SomeReq(requirement)))

resolve_requirement(env, fs, target, force, requirement, order, reply) ==
    IF ~force
    THEN InstalledOrFetch(find_installed_version(env, fs, target.binary, requirement, order),
                          reply,
                          Query("highest_matching_version", target.crate_name,
                                SomeReq(requirement)))
    ELSE FetchOutcome(fs, reply, Query("highest_matching_version", target.crate_name,
                                       SomeReq(requirement)))

resolve_run_plan(env, fs, target, force, order, reply) ==
    CASE target.version.kind = "Unspecified" ->
             resolve_unspecified(env, fs, target, force, order, reply)
      [] target.version.kind = "Latest" ->
             resolve_latest(env, fs, target, force, order, reply)
      [] target.version.kind = "Requirement" ->
             resolve_requirement(env, fs, target, force, target.version.req, order, reply)

----------------------------------------------------------------------------
(* executor.rs: the containment gate and the spawn.  Command::status on a  *)
(* path the kernel can execute runs the child to its end and yields its     *)
(* exit status (status: what the child ends with); on a file without the    *)
(* execute permission, or a directory, exec fails with PermissionDenied.    *)

\* the outcome of execute_binary: the exit status or the error, the
\* filesystem it leaves, and the spawns invoked (Command::status calls)
Ran(fs, status, spawns) ==
    [ok |-> TRUE, fs |-> fs, status |-> status, err |-> NoError, spawns |-> spawns]

NotRun(fs, err, spawns) ==
    [ok |-> FALSE, fs |-> fs, status |-> "none", err |-> err, spawns |-> spawns]

\* the mutant: the binary path is compared as given, symbolic links unresolved
ensure_binary_within_dir_lexical(fs, binary_path, install_dir) ==
    LET contained(root, binary) ==
            IF ~root.ok THEN Bad(fs, "failed to canonicalize", root.err)
            ELSE IF ~binary.ok THEN Bad(fs, "failed to canonicalize binary path", binary.err)
            ELSE IF ~PathStartsWith(binary_path, install_dir)
                 THEN Bad(fs, "refusing to execute binary outside install dir", "none")
            ELSE Good(fs, binary_path)
    IN  contained(canonicalize(fs, install_dir), canonicalize(fs, binary_path))

\* the mutant: a binary path that cannot be resolved is refused like an escape
ensure_binary_within_dir_refusing(fs, binary_path, install_dir) ==
    LET contained(root, binary) ==
            IF ~root.ok THEN Bad(fs, "failed to canonicalize", root.err)
            ELSE IF ~binary.ok \/ ~PathStartsWith(binary.path, root.path)
                 THEN Bad(fs, "refusing to execute binary outside install dir", "none")
            ELSE Good(fs, binary.path)
    IN  contained(canonicalize(fs, install_dir), canonicalize(fs, binary_path))

ensure_binary_within_dir(fs, binary_path, install_dir) ==
    LET contained(root, binary) ==
            IF ~root.ok THEN Bad(fs, "failed to canonicalize", root.err)
            ELSE IF ~binary.ok THEN Bad(fs, "failed to canonicalize binary path", binary.err)
            ELSE IF ~PathStartsWith(binary.path, root.path)
                 THEN Bad(fs, "refusing to execute binary outside install dir", "none")
            ELSE Good(fs, binary.path)
    IN  contained(canonicalize(fs, install_dir), canonicalize(fs, binary_path))

ensure_within_install_dir(env, fs, binary_path) ==
    LET within(g) == IF ~g.ok THEN g ELSE ensure_binary_within_dir(g.fs, binary_path, g.val)
    IN  within(get_install_dir(env, fs))

\* what exec of the path gives: "none" if the kernel runs it
ExecError(fs, binary_path) ==
    LET exec(node) == IF node.k = "none" THEN "NotFound"
                      ELSE IF node.k # "file" \/ ~node.x THEN "PermissionDenied"
                      ELSE "none"
    IN  exec(NodeAt(fs, binary_path))

execute_binary(env, fs, binary_path, args, status) ==
    LET spawn(f, failure) ==
            IF failure # "none"
            THEN NotRun(f, [msg |-> "failed to execute", cause |-> failure],
                        <<[path |-> binary_path, args |-> args]>>)
            ELSE Ran(f, status, <<[path |-> binary_path, args |-> args]>>)
        gated(gate) == IF ~gate.ok THEN NotRun(gate.fs, gate.err, <<>>)
                       ELSE spawn(gate.fs, ExecError(gate.fs, binary_path))
    IN  gated(ensure_within_install_dir(env, fs, binary_path))

----------------------------------------------------------------------------
(* cli.rs.  The derived clap parser of Cli (try_parse_from): the flags     *)
(* -f/--force, -q/--quiet, -s/--build-from-source, the option --bin NAME,  *)
(* the positional crate_spec and the trailing positional args; -h/--help   *)
(* and --version end the process, as does every parse error (e.exit()).    *)

NoText == [some |-> FALSE, text |-> <<>>]

SomeText(t) == [some |-> TRUE, text |-> t]

T_dashdash == <<"-", "-">>

T_binflag == <<"-", "-", "b", "i", "n">>

T_bineq == <<"-", "-", "b", "i", "n", "=">>

T_force == <<"-", "-", "f", "o", "r", "c", "e">>

T_quiet == <<"-", "-", "q", "u", "i", "e", "t">>

T_source == <<"-", "-", "b", "u", "i", "l", "d", "-", "f", "r", "o", "m", "-", "s", "o", "u", "r", "c", "e">>

T_help == <<"-", "-", "h", "e", "l", "p">>

T_version == <<"-", "-", "v", "e", "r", "s", "i", "o", "n">>

EmptyCli ==
    [exit |-> "none", crate_spec |-> NoText, bin |-> NoText, force |-> FALSE,
     quiet |-> FALSE, build_from_source |-> FALSE, args |-> <<>>]

ClapExit(cli, how) == [cli EXCEPT !.exit = how]

\* a flag set a second time is an error
SetFlag(cli, field) ==
    IF cli[field] THEN ClapExit(cli, "error") ELSE [cli EXCEPT ![field] = TRUE]

\* a cluster of short flags, the leading "-" dropped
RECURSIVE ClapShorts(_, _)
ClapShorts(cli, letters) ==
    IF letters = <<>> \/ cli.exit # "none" THEN cli
    ELSE IF letters[1] = "f" THEN ClapShorts(SetFlag(cli, "force"), Tail(letters))
    ELSE IF letters[1] = "q" THEN ClapShorts(SetFlag(cli, "quiet"), Tail(letters))
    ELSE IF letters[1] = "s" THEN ClapShorts(SetFlag(cli, "build_from_source"), Tail(letters))
    ELSE IF letters[1] = "h" THEN ClapExit(cli, "help")
    ELSE ClapExit(cli, "error")

\* a token clap takes as a value: it does not look like a flag
IsValue(t) == ~StartsWith(t, T_dash) \/ t = T_dash

\* a value taken as a positional: the crate spec first, then the trailing args
ClapPositional(cli, t) ==
    IF ~cli.crate_spec.some THEN [cli EXCEPT !.crate_spec = SomeText(t)]
    ELSE [cli EXCEPT !.args = Append(@, t)]

SetBin(cli, t) ==
    IF cli.bin.some THEN ClapExit(cli, "error") ELSE [cli EXCEPT !.bin = SomeText(t)]

\* escaped: a "--" was seen, or the trailing args began: the rest is values
RECURSIVE ClapParse(_, _, _)
ClapParse(cli, tokens, escaped) ==
    IF cli.exit # "none" THEN cli
    ELSE IF tokens = <<>>
         THEN (IF cli.crate_spec.some THEN cli ELSE ClapExit(cli, "error"))
    ELSE LET t == Head(tokens)
             rest == Tail(tokens)
         IN  IF escaped \/ cli.args # <<>> THEN ClapParse(ClapPositional(cli, t), rest, TRUE)
             ELSE IF t = T_dashdash THEN ClapParse(cli, rest, TRUE)
             ELSE IF t = T_binflag
                  THEN (IF rest # <<>> /\ IsValue(Head(rest))
                        THEN ClapParse(SetBin(cli, Head(rest)), Tail(rest), FALSE)
                        ELSE ClapExit(cli, "error"))
             ELSE IF StartsWith(t, T_bineq)
                  THEN ClapParse(SetBin(cli, DropPrefix(t, T_bineq)), rest, FALSE)
             ELSE IF t = T_force THEN ClapParse(SetFlag(cli, "force"), rest, FALSE)
             ELSE IF t = T_quiet THEN ClapParse(SetFlag(cli, "quiet"), rest, FALSE)
             ELSE IF t = T_source THEN ClapParse(SetFlag(cli, "build_from_source"), rest, FALSE)
             ELSE IF t = T_help THEN ClapExit(cli, "help")
             ELSE IF t = T_version THEN ClapExit(cli, "version")
             ELSE IF StartsWith(t, T_dashdash) THEN ClapExit(cli, "error")
             ELSE IF ~IsValue(t) THEN ClapParse(ClapShorts(cli, Tail(t)), rest, FALSE)
             ELSE ClapParse(ClapPositional(cli, t), rest, FALSE)

\* Cli::try_parse_from, the program name dropped; no argument at all shows
\* the help (arg_required_else_help)
try_parse_from(tokens) ==
    IF tokens = <<>> THEN ClapExit(EmptyCli, "help") ELSE ClapParse(EmptyCli, tokens, FALSE)

\* the scan for the crate spec: the index of the first argument that neither
\* starts with "-" nor follows "--bin"; 0 if there is none
RECURSIVE FindCrateSpec(_, _, _)
FindCrateSpec(args, i, skip_next) ==
    IF i > Len(args) THEN 0
    ELSE IF skip_next THEN FindCrateSpec(args, i + 1, FALSE)
    ELSE IF args[i] = T_binflag THEN FindCrateSpec(args, i + 1, TRUE)
    ELSE IF ~StartsWith(args[i], T_dash) THEN i
    ELSE FindCrateSpec(args, i + 1, FALSE)

\* the mutant: the crate spec itself is handed on with the binary's arguments
parse_args_keep_spec(argv) ==
    IF argv = <<>> THEN ClapExit(EmptyCli, "error")
    ELSE LET args == Tail(argv)
             idx  == FindCrateSpec(args, 1, FALSE)
             cli  == try_parse_from(IF idx # 0 THEN SubSeq(args, 1, idx) ELSE args)
         IN  IF cli.exit # "none" THEN cli
             ELSE [cli EXCEPT !.args = IF idx # 0 THEN SubSeq(args, idx, Len(args)) ELSE <<>>]

\* Cli::parse_args; argv is env::args_os(), the program name first
parse_args(argv) ==
    IF argv = <<>> THEN ClapExit(EmptyCli, "error")
    ELSE LET args == Tail(argv)
             idx  == FindCrateSpec(args, 1, FALSE)
             cargox_args == IF idx # 0 THEN SubSeq(args, 1, idx) ELSE args
             binary_args == IF idx # 0 THEN SubSeq(args, idx + 1, Len(args)) ELSE <<>>
             cli  == try_parse_from(cargox_args)
         IN  IF cli.exit # "none" THEN cli
             ELSE [cli EXCEPT !.args = binary_args]

----------------------------------------------------------------------------
(* target.rs: parse_spec, and the requirement syntax it accepts            *)
(* (VersionReq::parse): comparators separated by commas, each an optional  *)
(* operator and MAJOR[.MINOR[.PATCH]][-PRE]; "*" alone matches anything.   *)

T_latest == <<"l", "a", "t", "e", "s", "t">>

T_star == <<"*">>

NoComparator == [ok |-> FALSE, c |-> Comparator("Caret", 0, Absent, Absent, <<>>)]

\* the operator a comparator text starts with, and how many characters it takes
ReqOp(t) ==
    CASE StartsWith(t, <<">", "=">>) -> [op |-> "GreaterEq", n |-> 2]
      [] StartsWith(t, <<"<", "=">>) -> [op |-> "LessEq", n |-> 2]
      [] StartsWith(t, <<">">>) /\ ~StartsWith(t, <<">", "=">>) -> [op |-> "Greater", n |-> 1]
      [] StartsWith(t, <<"<">>) /\ ~StartsWith(t, <<"<", "=">>) -> [op |-> "Less", n |-> 1]
      [] StartsWith(t, <<"=">>) -> [op |-> "Exact", n |-> 1]
      [] StartsWith(t, <<"^">>) -> [op |-> "Caret", n |-> 1]
      [] StartsWith(t, <<"~">>) -> [op |-> "Tilde", n |-> 1]
      [] OTHER -> [op |-> "Caret", n |-> 0]

ParseComparator(t) ==
    LET o    == ReqOp(t)
        body == SubSeq(t, o.n + 1, Len(t))
        dash == IndexOf(body, "-")
        core == IF dash = 0 THEN body ELSE SubSeq(body, 1, dash - 1)
        pre  == IF dash = 0 THEN <<>> ELSE SubSeq(body, dash + 1, Len(body))
        nums == SplitOn(core, ".")
    IN  IF /\ Len(nums) \in 1..3
           /\ \A i \in 1..Len(nums) : IsNumeric(nums[i])
           /\ (dash # 0 => Len(nums) = 3 /\ ValidPre(pre))
        THEN [ok |-> TRUE,
              c |-> Comparator(o.op, NumVal(nums[1]),
                               IF Len(nums) >= 2 THEN NumVal(nums[2]) ELSE Absent,
                               IF Len(nums) = 3 THEN NumVal(nums[3]) ELSE Absent, pre)]
        ELSE NoComparator

VersionReqParse(t) ==
    IF t = T_star THEN [ok |-> TRUE, req |-> <<>>]
    ELSE LET parts == SplitOn(t, ",")
             cs    == [i \in 1..Len(parts) |-> ParseComparator(parts[i])]
         IN  IF \A i \in 1..Len(parts) : cs[i].ok
             THEN [ok |-> TRUE, req |-> [i \in 1..Len(parts) |-> cs[i].c]]
             ELSE [ok |-> FALSE, req |-> <<>>]

NoTarget == [crate_name |-> <<>>, version |-> Unspecified, binary |-> <<>>]

\* parse_spec: name[@version]; nothing after the name is Unspecified, "latest"
\* is Latest, anything else must parse as a requirement
parse_spec(spec) ==
    LET at   == IndexOf(spec, "@")
        name == IF at = 0 THEN spec ELSE SubSeq(spec, 1, at - 1)
        raw  == IF at = 0 THEN <<>> ELSE SubSeq(spec, at + 1, Len(spec))
    IN  IF raw = <<>> THEN [ok |-> TRUE, crate_name |-> name, version |-> Unspecified]
        ELSE IF raw = T_latest THEN [ok |-> TRUE, crate_name |-> name, version |-> Latest]
        ELSE IF VersionReqParse(raw).ok
             THEN [ok |-> TRUE, crate_name |-> name,
                   version |-> Requirement(VersionReqParse(raw).req)]
        ELSE [ok |-> FALSE, crate_name |-> name, version |-> Unspecified]

\* main.rs: parse_target_from_cli
parse_target_from_cli(cli) ==
    LET parsed == parse_spec(cli.crate_spec.text)
    IN  IF ~parsed.ok THEN [ok |-> FALSE, target |-> NoTarget]
        ELSE [ok |-> TRUE,
              target |-> [crate_name |-> parsed.crate_name, version |-> parsed.version,
                          binary |-> IF cli.bin.some THEN cli.bin.text ELSE parsed.crate_name]]

----------------------------------------------------------------------------
(* installer.rs: ensure_installed.  When it succeeds, a regular executable *)
(* file named <binary>-<version> is in the binary directory (installed     *)
(* over whatever had that name); when it fails nothing is left behind.     *)

ensure_installed(env, fs, target, version, succeeds) ==
    LET place(p) ==
            IF ~p.ok THEN Bad(p.fs, "failed to install", p.err.cause)
            ELSE IF ~succeeds \/ ~env.writable THEN Bad(p.fs, "failed to install", "installer")
            ELSE Good((Join(canonicalize(p.fs, Parent(p.val)).path, p.val[Len(p.val)])
                          :> File(TRUE)) @@ p.fs, p.val)
    IN  place(versioned_binary_path(env, fs, target.binary, version))

----------------------------------------------------------------------------
(* The worlds the program is started in: an environment and a filesystem.  *)

T_tool == <<"t", "o", "o", "l">>

T_other == <<"o", "t", "h", "e", "r">>

T_opt == <<"o", "p", "t">>

T_xdg == <<"x", "d", "g">>

T_h == <<"h">>

T_store == <<"s", "t", "o", "r", "e">>

T_out == <<"o", "u", "t">>

T_etc == <<"e", "t", "c">>

T_pw == <<"p", "w">>

T_gone == <<"g", "o", "n", "e">>

\* what the binary directory may hold: the name and the node
Candidates ==
    { [name |-> T_tool \o <<"-", "1", ".", "0", ".", "0">>, node |-> File(TRUE)],
      [name |-> T_tool \o <<"-", "1", ".", "5", ".", "0">>, node |-> File(TRUE)],
      [name |-> T_tool \o <<"-", "2", ".", "0", ".", "0">>, node |-> File(FALSE)],
      [name |-> T_tool \o <<"-", "1", ".", "6", ".", "0">>, node |-> Link(<<T_etc, T_pw>>)],
      [name |-> T_tool \o <<"-", "0", ".", "9", ".", "0">>, node |-> Dir],
      [name |-> T_tool \o <<"-", "1", ".", "0", ".", "0", ".", "e", "x", "e">>, node |-> File(TRUE)],
      [name |-> T_tool \o <<"-", "a", "b", "c">>, node |-> File(TRUE)],
      [name |-> T_other \o <<"-", "3", ".", "0", ".", "0">>, node |-> File(TRUE)],
      [name |-> T_tool \o <<"-", "1", ".", "5", ".", "0", "-", "r", "c", "1">>, node |-> File(TRUE)],
      [name |-> T_tool \o <<"-", "1", ".", "7", ".", "0">>, node |-> Link(<<T_gone>>)] }

\* the sets of at most MaxFiles candidates
Contents == { S \in SUBSET Candidates : Cardinality(S) <= MaxFiles }

\* the install directory each source names
RootOf(src) ==
    CASE src = "override" -> <<T_opt>>
      [] src = "data" -> <<T_xdg, T_cargox>>
      [] src = "home" -> <<T_h, T_local, T_share, T_cargox>>
      [] src = "none" -> <<T_opt>>

EnvOf(src, writable, readable, windows) ==
    [override |-> IF src = "override" THEN SomePath(<<T_opt>>) ELSE NoPath,
     dataDir  |-> IF src \in {"override", "data"} THEN SomePath(<<T_xdg, T_cargox>>) ELSE NoPath,
     home     |-> IF src = "none" THEN NoPath ELSE SomePath(<<T_h>>),
     writable |-> writable, readable |-> readable, windows |-> windows]

\* the directories above p, "/" left out
Ancestors(p) == { SubSeq(p, 1, n) : n \in 1..(Len(p) - 1) }

\* a function from a set of [path, node] pairs
FsOf(S) == [p \in { e.path : e \in S } |-> (CHOOSE e \in S : e.path = p).node]

\* root: what is at the install directory ("missing", "dir", "file", or "link"
\* to /store); bin: what its bin is ("missing", "dir", or "link" to /out);
\* files: the candidates the binary directory holds
FsWith(src, root, bin, files) ==
    LET at   == RootOf(src)
        phys == IF root = "link" THEN <<T_store>> ELSE at
        held == IF bin = "link" THEN <<T_out>> ELSE Join(phys, T_bin)
        base == { [path |-> <<T_h>>, node |-> Dir], [path |-> <<T_etc>>, node |-> Dir],
                  [path |-> <<T_etc, T_pw>>, node |-> File(TRUE)],
                  [path |-> <<T_out>>, node |-> Dir] }
        rootN == IF root = "missing" THEN {}
                 ELSE { [path |-> a, node |-> Dir] : a \in Ancestors(at) } \cup
                      (CASE root = "dir" -> { [path |-> at, node |-> Dir] }
                         [] root = "file" -> { [path |-> at, node |-> File(FALSE)] }
                         [] root = "link" -> { [path |-> at, node |-> Link(<<T_store>>)],
                                               [path |-> <<T_store>>, node |-> Dir] })
        binN  == IF root \in {"missing", "file"} \/ bin = "missing" THEN {}
                 ELSE (IF bin = "link"
                       THEN { [path |-> Join(phys, T_bin), node |-> Link(<<T_out>>)] }
                       ELSE { [path |-> Join(phys, T_bin), node |-> Dir] }) \cup
                      { [path |-> Join(held, f.name), node |-> f.node] : f \in files }
    IN  FsOf(base \cup rootN \cup binN)

----------------------------------------------------------------------------
(* The state: the world (env, fs), the command line (argv), where          *)
(* run_application stands (pc) with what it has computed so far (cli,      *)
(* target, plan, err, status), what it has invoked (asked: registry        *)
(* operations with their replies, installs: installer runs with their      *)
(* outcome, spawns: Command::status calls),                                *)
(* and, for a function called on its own, the call (op, arg) and what it   *)
(* returned (ret).                                                         *)

VARIABLES env, fs, argv, pc, cli, target, plan, err, status, asked, installs, spawns,
          op, arg, ret

vars == <<env, fs, argv, pc, cli, target, plan, err, status, asked, installs, spawns,
          op, arg, ret>>

world == <<env, argv>>

progress == <<cli, target, plan, err, status, asked, installs, spawns>>

call == <<op, arg, ret>>

Version(major, minor, patch) ==
    [ok |-> TRUE, major |-> major, minor |-> minor, patch |-> patch, pre |-> <<>>, build |-> <<>>]

\* the versions the registry may name
RemoteVersions == { Version(0, 9, 0), Version(1, 5, 0), Version(1, 6, 0), Version(2, 0, 0) }

\* what the registry may answer to a lookup for the version spec: for a
\* requirement, only a version that satisfies it
Replies(version) ==
    { RegistryReply(v) : v \in { w \in RemoteVersions :
                                   version.kind = "Requirement" => ReqMatches(version.req, w) } }
        \cup { RegistryFailure("unreachable"), RegistryFailure("malformed"),
               RegistryFailure("no matching version") }

\* how a child may end: an exit code, or a signal
Statuses == { "exit 0", "exit 1", "signal" }

\* the requirements the catalog is asked for: ^1.0, ~1.0, =1.5.0, >=2.0.0,
\* <1.5.0, ^3, =1.5.0-rc1 and *
Requirements ==
    { <<Comparator("Caret", 1, 0, Absent, <<>>)>>,
      <<Comparator("Tilde", 1, 0, Absent, <<>>)>>,
      <<Comparator("Exact", 1, 5, 0, <<>>)>>,
      <<Comparator("GreaterEq", 2, 0, 0, <<>>)>>,
      <<Comparator("Less", 1, 5, 0, <<>>)>>,
      <<Comparator("Caret", 3, Absent, Absent, <<>>)>>,
      <<Comparator("Exact", 1, 5, 0, <<"r", "c", "1">>)>>,
      <<>> }

Binaries == { T_tool, T_other }

InitProgress ==
    /\ pc = "start"
    /\ cli = EmptyCli
    /\ target = NoTarget
    /\ plan = NoPlan
    /\ err = NoError
    /\ status = "none"
    /\ asked = <<>>
    /\ installs = <<>>
    /\ spawns = <<>>
    /\ op = "none"
    /\ arg = <<>>
    /\ ret = <<>>

----------------------------------------------------------------------------
(* run_application, step by step *)

\* parse_arguments: a parse error, the help and the version end the process
ParseArguments ==
    /\ pc = "start"
    /\ cli' = parse_args(argv)
    /\ pc' = IF cli'.exit = "none" THEN "parsed" ELSE "exited"
    /\ UNCHANGED <<world, fs, target, plan, err, status, asked, installs, spawns, call>>

ParseTarget ==
    /\ pc = "parsed"
    /\ \E t \in { parse_target_from_cli(cli) } :
           /\ target' = t.target
           /\ pc' = IF t.ok THEN "targeted" ELSE "failed"
           /\ err' = IF t.ok THEN err ELSE [msg |-> "invalid version spec", cause |-> "none"]
    /\ UNCHANGED <<world, fs, cli, plan, status, asked, installs, spawns, call>>

ResolveRunPlan ==
    /\ pc = "targeted"
    /\ \E order \in ScanOrders(env, fs), reply \in Replies(target.version) :
          \E r \in { resolve_run_plan(env, fs, target, cli.force, order, reply) } :
              /\ fs' = r.fs
              /\ plan' = r.plan
              /\ err' = r.err
              /\ asked' = asked \o [i \in 1..Len(r.asked) |->
                                        [query |-> r.asked[i], reply |-> reply]]
              /\ pc' = IF r.ok THEN "planned" ELSE "failed"
    /\ UNCHANGED <<world, cli, target, status, installs, spawns, call>>

\* execute_plan, UseInstalled
ExecuteInstalled ==
    /\ pc = "planned"
    /\ plan.kind = "UseInstalled"
    /\ \E st \in Statuses :
          \E r \in { execute_binary(env, fs, plan.path, cli.args, st) } :
              /\ fs' = r.fs
              /\ spawns' = spawns \o r.spawns
              /\ status' = r.status
              /\ err' = r.err
              /\ pc' = IF r.ok THEN "done" ELSE "failed"
    /\ UNCHANGED <<world, cli, target, plan, asked, installs, call>>

\* the mutant: the installer's error is dropped, and the run goes on
EnsureInstalledUnchecked ==
    /\ pc = "planned"
    /\ plan.kind = "InstallAndRun"
    /\ \E succeeds \in BOOLEAN :
          \E r \in { ensure_installed(env, fs, target, plan.version, succeeds) } :
              /\ fs' = r.fs
              /\ installs' = Append(installs, [binary |-> target.binary,
                                               version |-> plan.version, ok |-> r.ok])
              /\ err' = r.err
              /\ pc' = "installed"
    /\ UNCHANGED <<world, cli, target, plan, status, asked, spawns, call>>

\* execute_plan, InstallAndRun: the installer runs; its error ends the run
EnsureInstalled ==
    /\ pc = "planned"
    /\ plan.kind = "InstallAndRun"
    /\ \E succeeds \in BOOLEAN :
          \E r \in { ensure_installed(env, fs, target, plan.version, succeeds) } :
              /\ fs' = r.fs
              /\ installs' = Append(installs, [binary |-> target.binary,
                                               version |-> plan.version, ok |-> r.ok])
              /\ err' = r.err
              /\ pc' = IF r.ok THEN "installed" ELSE "failed"
    /\ UNCHANGED <<world, cli, target, plan, status, asked, spawns, call>>

\* execute_plan, InstallAndRun: the path is derived and the binary executed
ExecuteVersioned ==
    /\ pc = "installed"
    /\ \E st \in Statuses :
          \E p \in { versioned_binary_path(env, fs, target.binary, plan.version) } :
              IF ~p.ok
              THEN /\ fs' = p.fs
                   /\ err' = p.err
                   /\ pc' = "failed"
                   /\ UNCHANGED <<spawns, status>>
              ELSE \E r \in { execute_binary(env, p.fs, p.val, cli.args, st) } :
                      /\ fs' = r.fs
                      /\ spawns' = spawns \o r.spawns
                      /\ status' = r.status
                      /\ err' = r.err
                      /\ pc' = IF r.ok THEN "done" ELSE "failed"
    /\ UNCHANGED <<world, cli, target, plan, asked, installs, call>>

----------------------------------------------------------------------------
(* The functions called on their own, as the unit tests call them *)

Returned(name, input, output) ==
    /\ op' = name
    /\ arg' = input
    /\ ret' = output
    /\ pc' = "returned"
    /\ UNCHANGED <<world, progress>>

CallGetInstallDir ==
    /\ pc = "start"
    /\ \E r \in { get_install_dir(env, fs) } :
           /\ fs' = r.fs
           /\ Returned("get_install_dir", <<>>, [ok |-> r.ok, val |-> r.val, err |-> r.err])

CallListInstalledVersions(binary, order) ==
    /\ pc = "start"
    /\ \E r \in { list_installed_versions(env, fs, binary, order) } :
           /\ fs' = r.fs
           /\ Returned("list_installed_versions", [binary |-> binary],
                       [ok |-> r.ok, val |-> r.val, err |-> r.err])

CallLatestInstalled(binary, order) ==
    /\ pc = "start"
    /\ \E r \in { latest_installed(env, fs, binary, order) } :
           /\ fs' = r.fs
           /\ Returned("latest_installed", [binary |-> binary],
                       [ok |-> r.ok, val |-> r.val, err |-> r.err])

CallFindInstalledVersion(binary, requirement, order) ==
    /\ pc = "start"
    /\ \E r \in { find_installed_version(env, fs, binary, requirement, order) } :
           /\ fs' = r.fs
           /\ Returned("find_installed_version",
                       [binary |-> binary, requirement |-> requirement],
                       [ok |-> r.ok, val |-> r.val, err |-> r.err])

CallResolveRunPlan(t, force, order, reply) ==
    /\ pc = "start"
    /\ \E r \in { resolve_run_plan(env, fs, t, force, order, reply) } :
           /\ fs' = r.fs
           /\ Returned("resolve_run_plan", [target |-> t, force |-> force, reply |-> reply],
                       [ok |-> r.ok, plan |-> r.plan, err |-> r.err, asked |-> r.asked])

CallExecuteBinary(binary_path, args, st) ==
    /\ pc = "start"
    /\ \E r \in { execute_binary(env, fs, binary_path, args, st) } :
           /\ fs' = r.fs
           /\ Returned("execute_binary", [binary_path |-> binary_path, args |-> args],
                       [ok |-> r.ok, status |-> r.status, err |-> r.err, spawns |-> r.spawns])

----------------------------------------------------------------------------
(* Initial states *)

Sources == { "override", "data", "home", "none" }

RootKinds == { "missing", "dir", "file", "link" }

BinKinds == { "missing", "dir", "link" }

Named(name) == CHOOSE c \in Candidates : c.name = name

N_100 == T_tool \o <<"-", "1", ".", "0", ".", "0">>

N_150 == T_tool \o <<"-", "1", ".", "5", ".", "0">>

N_160 == T_tool \o <<"-", "1", ".", "6", ".", "0">>

N_200 == T_tool \o <<"-", "2", ".", "0", ".", "0">>

N_090 == T_tool \o <<"-", "0", ".", "9", ".", "0">>

N_170 == T_tool \o <<"-", "1", ".", "7", ".", "0">>

N_150rc1 == T_tool \o <<"-", "1", ".", "5", ".", "0", "-", "r", "c", "1">>

N_other == T_other \o <<"-", "3", ".", "0", ".", "0">>

\* the sequences over S of length at most n
SeqsUpTo(S, n) == UNION { [1..k -> S] : k \in 0..n }

\* the install directory may be anything; the binary directory holds at most one file
InitPaths ==
    /\ InitProgress
    /\ argv = <<T_cargox>>
    /\ \E src \in Sources, root \in RootKinds, bin \in { "missing", "dir" },
          writable \in BOOLEAN, files \in { {}, { Named(N_100) } } :
          /\ env = EnvOf(src, writable, TRUE, FALSE)
          /\ fs = FsWith(src, root, bin, files)

\* either a sound install directory holding any contents, on either platform,
\* or any install directory holding little
InitCatalog ==
    /\ InitProgress
    /\ argv = <<T_cargox>>
    /\ \/ \E files \in Contents, windows \in BOOLEAN :
             /\ env = EnvOf("override", TRUE, TRUE, windows)
             /\ fs = FsWith("override", "dir", "dir", files)
       \/ \E src \in { "override", "data" }, root \in RootKinds, bin \in BinKinds,
             writable \in BOOLEAN, readable \in BOOLEAN, files \in { {}, { Named(N_100) } } :
             /\ env = EnvOf(src, writable, readable, FALSE)
             /\ fs = FsWith(src, root, bin, files)

\* the binary paths execute_binary is given: every path there is, the binary
\* directory's entries by their names, and a path that does not exist
ExecPaths(e, f) ==
    LET held(g) == IF g.ok THEN { g.val \o <<T_bin, n>> : n \in { c.name : c \in Candidates } }
                   ELSE {}
    IN  DOMAIN f \cup { <<T_gone>> } \cup held(get_install_dir(e, f))

\* the argument lists execute_binary is given: none, a flag, and an empty
\* string followed by an argument with a space and a quote in it
ArgLists == { <<>>, <<T_help>>, <<<<>>, <<"a", " ", "'", "b">>>> }

\* what the binary directory holds when execute_binary is tried
ExecContents ==
    { S \in SUBSET { Named(N_100), Named(N_200), Named(N_160), Named(N_090), Named(N_170) } :
        Cardinality(S) <= MaxFiles }

\* either a sound install directory holding any of these contents, or any
\* install directory holding little
InitExec ==
    /\ InitProgress
    /\ argv = <<T_cargox>>
    /\ \/ \E files \in ExecContents :
             /\ env = EnvOf("override", TRUE, TRUE, FALSE)
             /\ fs = FsWith("override", "dir", "dir", files)
       \/ \E src \in Sources, root \in RootKinds, bin \in BinKinds,
             files \in { {}, { Named(N_100) } } :
             /\ env = EnvOf(src, TRUE, TRUE, FALSE)
             /\ fs = FsWith(src, root, bin, files)

\* the targets the resolver is given: the crate "tool" with every kind of
\* version spec
Targets ==
    { [crate_name |-> T_tool, version |-> v, binary |-> T_tool] :
        v \in { Unspecified, Latest } \cup { Requirement(r) : r \in Requirements } }

\* what the binary directory holds when a plan is resolved
ResolveContents ==
    { S \in SUBSET { Named(N_100), Named(N_150), Named(N_200), Named(N_160), Named(N_150rc1),
                     Named(N_other) } :
        Cardinality(S) <= MaxFiles }

\* either a sound install directory holding any of these contents, or an
\* install directory that cannot be determined, created or listed
InitResolve ==
    /\ InitProgress
    /\ argv = <<T_cargox>>
    /\ \/ \E files \in ResolveContents :
             /\ env = EnvOf("override", TRUE, TRUE, FALSE)
             /\ fs = FsWith("override", "dir", "dir", files)
       \/ \E src \in { "override", "none" }, root \in { "dir", "file" },
             writable \in BOOLEAN, readable \in BOOLEAN, files \in { {}, { Named(N_150) } } :
             /\ env = EnvOf(src, writable, readable, FALSE)
             /\ fs = FsWith(src, root, "dir", files)

\* the command lines: every sequence of at most MaxArgs of these arguments, and
\* some with a version after the crate name
ArgTokens ==
    { T_binflag, <<"-", "f">>, T_dashdash, <<"-", "y">>, T_help, T_tool, <<"x">>, <<"a", " ", "b">> }

VersionedLines ==
    { <<T_tool \o <<"@">> \o T_latest>>, <<<<"-", "f">>, T_tool \o <<"@">> \o T_latest>>,
      <<T_tool \o <<"@", "^", "1", ".", "0">>, T_help>>,
      <<T_force, T_tool \o <<"@", "^", "1", ".", "0">>>>,
      <<T_tool \o <<"@", ">", "=", "2", ".", "0", ".", "0">>>>,
      <<T_tool \o <<"@", "a", "b", "c">>>>,
      <<T_bineq \o T_tool, T_other \o <<"@">>, <<"x">>>> }

CommandLines == SeqsUpTo(ArgTokens, MaxArgs) \cup VersionedLines

Worlds ==
    { [env |-> EnvOf("override", TRUE, TRUE, FALSE),
       fs |-> FsWith("override", "dir", "dir", { Named(N_100), Named(N_150) })],
      [env |-> EnvOf("override", TRUE, TRUE, FALSE),
       fs |-> FsWith("override", "dir", "dir", { Named(N_100), Named(N_160) })],
      [env |-> EnvOf("override", TRUE, TRUE, FALSE),
       fs |-> FsWith("override", "dir", "dir", { Named(N_200) })],
      [env |-> EnvOf("override", TRUE, FALSE, FALSE),
       fs |-> FsWith("override", "dir", "dir", { Named(N_100) })],
      [env |-> EnvOf("override", TRUE, TRUE, TRUE),
       fs |-> FsWith("override", "dir", "dir", { Named(N_100) })],
      [env |-> EnvOf("data", TRUE, TRUE, FALSE),
       fs |-> FsWith("data", "missing", "missing", {})],
      [env |-> EnvOf("none", TRUE, TRUE, FALSE),
       fs |-> FsWith("none", "missing", "missing", {})] }

Init ==
    /\ InitProgress
    /\ \E w \in Worlds :
          /\ env = w.env
          /\ fs = w.fs
    /\ argv \in { <<T_cargox>> \o line : line \in CommandLines } \cup { <<>> }

----------------------------------------------------------------------------
(* Specifications *)

Next ==
    \/ ParseArguments
    \/ ParseTarget
    \/ ResolveRunPlan
    \/ ExecuteInstalled
    \/ EnsureInstalled
    \/ ExecuteVersioned

\* one run of the program
Spec == Init /\ [][Next]_vars

NextPaths == CallGetInstallDir

\* get_install_dir called once
SpecPaths == InitPaths /\ [][NextPaths]_vars

NextCatalog ==
    \E binary \in Binaries, order \in ScanOrders(env, fs) :
        \/ CallListInstalledVersions(binary, order)
        \/ CallLatestInstalled(binary, order)
        \/ \E requirement \in Requirements :
              CallFindInstalledVersion(binary, requirement, order)

\* one call of a catalog operation
SpecCatalog == InitCatalog /\ [][NextCatalog]_vars

NextResolve ==
    \E t \in Targets, force \in BOOLEAN, order \in ScanOrders(env, fs) :
        \E reply \in Replies(t.version) : CallResolveRunPlan(t, force, order, reply)

\* one call of resolve_run_plan
SpecResolve == InitResolve /\ [][NextResolve]_vars

NextExec ==
    \E binary_path \in ExecPaths(env, fs), args \in ArgLists, st \in Statuses :
        CallExecuteBinary(binary_path, args, st)

\* one call of execute_binary
SpecExec == InitExec /\ [][NextExec]_vars

----------------------------------------------------------------------------
(* What the properties speak of: the install directory the environment     *)
(* names, its binary directory, and the installed catalog as the set of    *)
(* entries of that directory that are regular files named                  *)
(* <binary>-<version> (on Windows, with or without ".exe").                *)

HasRoot(e) == e.override.some \/ e.dataDir.some \/ e.home.some

InstallRoot(e) ==
    IF e.override.some THEN e.override.path
    ELSE IF e.dataDir.some THEN e.dataDir.path
    ELSE e.home.path \o <<T_local, T_share, T_cargox>>

BinDir(e) == Join(InstallRoot(e), T_bin)

\* the binary directory is there and can be listed
Listable(e, f) == HasRoot(e) /\ is_dir(f, BinDir(e)) /\ e.readable

Stem(e, name) == IF e.windows /\ EndsWith(name, T_exe) THEN DropSuffix(name, T_exe) ELSE name

IsInstalledName(e, f, binary, name) ==
    /\ is_file(f, Join(BinDir(e), name))
    /\ StartsWith(Stem(e, name), binary \o T_dash)
    /\ VersionParse(DropPrefix(Stem(e, name), binary \o T_dash)).ok

Installed(e, f, binary) ==
    { [version |-> VersionParse(DropPrefix(Stem(e, n), binary \o T_dash)),
       path |-> Join(BinDir(e), n)] :
        n \in { m \in DirNames(f, BinDir(e)) : IsInstalledName(e, f, binary, m) } }

\* the entries of S no entry of S is above
Newest(S) == { e \in S : \A o \in S : CmpVersion(o.version, e.version) <= 0 }

\* get_install_dir yields the install directory: the override is taken as it
\* is, the other sources must be directories once create_dir_all has run
RootKnown(e, f) == HasRoot(e) /\ (e.override.some \/ is_dir(f, InstallRoot(e)))

\* the path is inside the install directory once both are resolved
ResolvesInside(e, f, path) ==
    /\ RootKnown(e, f)
    /\ canonicalize(f, InstallRoot(e)).ok
    /\ canonicalize(f, path).ok
    /\ PathStartsWith(canonicalize(f, path).path, canonicalize(f, InstallRoot(e)).path)

\* the path is under the install directory, in a directory that resolves
\* inside it, and there is nothing at it
MissingInside(e, f, path) ==
    /\ HasRoot(e)
    /\ path # <<>>
    /\ PathStartsWith(path, InstallRoot(e))
    /\ ResolvesInside(e, f, Parent(path))
    /\ is_dir(f, Parent(path))
    /\ ~canonicalize(f, path).ok
    /\ canonicalize(f, path).err = "NotFound"

\* the path leads to something the kernel will not execute
Unrunnable(f, path) == NodeAt(f, path).k # "file" \/ ~NodeAt(f, path).x

T_refusing == "refusing to execute binary outside install dir"

----------------------------------------------------------------------------
(* The executor *)

\* C1: in every call of execute_binary a child process is spawned only if the
\* canonical binary path is the canonical install directory or below it; when
\* the canonical binary path lies outside, the call fails with the refusal and
\* Command::status is never invoked.
C1_SpawnOnlyInsideRoot ==
    op = "execute_binary" =>
        /\ (ret.spawns # <<>> => ResolvesInside(env, fs, arg.binary_path))
        /\ (canonicalize(fs, arg.binary_path).ok /\ ~ResolvesInside(env, fs, arg.binary_path)
            => ~ret.ok /\ ret.spawns = <<>>)
        /\ (/\ RootKnown(env, fs)
            /\ canonicalize(fs, InstallRoot(env)).ok
            /\ canonicalize(fs, arg.binary_path).ok
            /\ ~ResolvesInside(env, fs, arg.binary_path)
            => ret.err = [msg |-> T_refusing, cause |-> "none"])

\* a symbolic link below the install directory that leads outside is refused
C1_SymlinkEscapeRefused ==
    /\ op = "execute_binary"
    /\ RootKnown(env, fs)
    /\ PathStartsWith(arg.binary_path, InstallRoot(env))
    /\ canonicalize(fs, arg.binary_path).ok
    /\ canonicalize(fs, InstallRoot(env)).ok
    /\ ~ResolvesInside(env, fs, arg.binary_path)
    /\ ret.err.msg = T_refusing
    /\ ret.spawns = <<>>

\* C9 as stated: a binary path inside the install directory that cannot be run
\* (missing, not executable, permission denied) makes execute_binary fail with
\* "failed to execute" wrapping the OS-level cause.
C9_UnrunnableFailsToExecute ==
    (/\ op = "execute_binary"
     /\ \/ ResolvesInside(env, fs, arg.binary_path) /\ Unrunnable(fs, arg.binary_path)
        \/ MissingInside(env, fs, arg.binary_path))
    => /\ ~ret.ok
       /\ ret.err.msg = "failed to execute"
       /\ ret.err.cause # "none"

\* C9, amended: a binary inside the install directory that is there but cannot
\* be executed makes execute_binary fail with "failed to execute" wrapping the
\* OS-level cause; a missing binary makes it fail earlier, nothing spawned,
\* with "failed to canonicalize binary path" wrapping the OS-level cause; the
\* refusal of a path that resolves outside wraps no cause, so both faults are
\* told apart from it.
C9_FaultsWrapCause ==
    op = "execute_binary" =>
        /\ (ResolvesInside(env, fs, arg.binary_path) /\ Unrunnable(fs, arg.binary_path)
            => /\ ~ret.ok
               /\ ret.err = [msg |-> "failed to execute", cause |-> "PermissionDenied"]
               /\ Len(ret.spawns) = 1)
        /\ (MissingInside(env, fs, arg.binary_path)
            => /\ ~ret.ok
               /\ ret.err = [msg |-> "failed to canonicalize binary path", cause |-> "NotFound"]
               /\ ret.spawns = <<>>)
        /\ (ret.err.msg = T_refusing => ret.err.cause = "none")

\* a binary that is not there is reported by the canonicalization
C9_MissingBinaryReported ==
    /\ op = "execute_binary"
    /\ MissingInside(env, fs, arg.binary_path)
    /\ ret.err.msg = "failed to canonicalize binary path"
    /\ ret.spawns = <<>>

----------------------------------------------------------------------------
(* The install directory *)

\* C10: whenever get_install_dir returns a path, from whichever source, that
\* path is a directory on the filesystem at the moment of return.
C10_ReturnedDirectoryExists ==
    (op = "get_install_dir" /\ ret.ok) => is_dir(fs, ret.val)

----------------------------------------------------------------------------
(* The installed catalog *)

\* C6: find_installed_version(b, r) never returns an entry whose version
\* fails r; it returns none exactly when no installed version of b satisfies
\* r; otherwise what it returns is an installed entry of b satisfying r that
\* no installed entry of b satisfying r is above.
C6_FindReturnsHighestMatch ==
    (op = "find_installed_version" /\ ret.ok) =>
        \A matching \in { { e \in Installed(env, fs, arg.binary) :
                              ReqMatches(arg.requirement, e.version) } } :
            /\ (ret.val.some => ReqMatches(arg.requirement, ret.val.bin.version))
            /\ (ret.val.some => ret.val.bin \in Newest(matching))
            /\ (~ret.val.some <=> matching = {})

\* a newer version that fails the requirement is installed, and an older one
\* that satisfies it is returned
C6_NewerNonMatchingSkipped ==
    /\ op = "find_installed_version"
    /\ ret.ok
    /\ ret.val.some
    /\ \E e \in Installed(env, fs, arg.binary) :
          CmpVersion(e.version, ret.val.bin.version) > 0
    /\ \E e \in Installed(env, fs, arg.binary) :
          CmpVersion(e.version, ret.val.bin.version) < 0 /\ ReqMatches(arg.requirement, e.version)

\* C7: for every content of the binary directory, list_installed_versions(b)
\* returns entries in strictly ascending order of version (no two entries of
\* equal version), each of them a regular file whose name is "<b>-" followed
\* by a semantic version.
C7_StrictlyAscending ==
    (op = "list_installed_versions" /\ ret.ok) =>
        /\ \A i \in 1..(Len(ret.val) - 1) :
              CmpVersion(ret.val[i].version, ret.val[i + 1].version) < 0
        /\ \A i \in 1..Len(ret.val) : ret.val[i] \in Installed(env, fs, arg.binary)

\* the part of the filesystem at and below a directory
Under(f, dir) == [p \in { q \in DOMAIN f : PathStartsWith(q, dir) } |-> f[p]]

\* C11: list_installed_versions, latest_installed and find_installed_version
\* only read: a call of any of them leaves the filesystem under the install
\* directory as it was, and when the binary directory is not there yet the
\* call succeeds with nothing installed (an empty list, no entry).
C11_CatalogOnlyReads ==
    [][(/\ HasRoot(env)
        /\ op' \in { "list_installed_versions", "latest_installed", "find_installed_version" })
       => /\ Under(fs', InstallRoot(env)) = Under(fs, InstallRoot(env))
          /\ (~exists(fs, BinDir(env)) => ret'.ok /\ ret'.val \in { <<>>, NoneBinary })]_vars

----------------------------------------------------------------------------
(* The resolver *)

\* C2: for every version spec and every installed catalog, with force set
\* resolve_run_plan queries the registry and never returns UseInstalled; when
\* it succeeds the plan is InstallAndRun of the version the registry returned.
C2_ForceAlwaysAsksRegistry ==
    (op = "resolve_run_plan" /\ arg.force) =>
        /\ Len(ret.asked) = 1
        /\ ret.plan.kind # "UseInstalled"
        /\ (ret.ok => ret.plan = InstallAndRun(arg.reply.version))

\* C3: for Unspecified without force, when the catalog of the target binary
\* is not empty the resolver returns UseInstalled with the path of the highest
\* installed version and asks the registry nothing; when it is empty the
\* resolver asks latest_version and returns InstallAndRun of that version.
C3_UnspecifiedPrefersInstalled ==
    (/\ op = "resolve_run_plan"
     /\ arg.target.version.kind = "Unspecified"
     /\ ~arg.force
     /\ Listable(env, fs)) =>
        \A installed \in { Installed(env, fs, arg.target.binary) } :
            IF installed # {}
            THEN /\ ret.ok
                 /\ ret.plan.kind = "UseInstalled"
                 /\ \E e \in Newest(installed) : ret.plan.path = e.path
                 /\ ret.asked = <<>>
            ELSE /\ ret.asked = <<Query("latest_version", arg.target.crate_name, NoReq)>>
                 /\ ret.ok = arg.reply.ok
                 /\ (ret.ok => ret.plan = InstallAndRun(arg.reply.version))

\* an installed version older than the registry's is used, the registry not asked
C3_OlderInstalledUsed ==
    /\ op = "resolve_run_plan"
    /\ arg.target.version.kind = "Unspecified"
    /\ ~arg.force
    /\ arg.reply.ok
    /\ ret.plan.kind = "UseInstalled"
    /\ ret.asked = <<>>
    /\ Cardinality(Installed(env, fs, arg.target.binary)) >= 2
    /\ \A e \in Installed(env, fs, arg.target.binary) :
          CmpVersion(e.version, arg.reply.version) < 0

\* what C4 says of a resolution of Latest
LatestDecision ==
    \A installed \in { Installed(env, fs, arg.target.binary) } :
        /\ ret.asked = <<Query("latest_version", arg.target.crate_name, NoReq)>>
        /\ ret.ok = arg.reply.ok
        /\ (ret.ok /\ ~arg.force =>
               IF \E e \in installed : CmpVersion(e.version, arg.reply.version) >= 0
               THEN /\ ret.plan.kind = "UseInstalled"
                    /\ \E e \in Newest(installed) : ret.plan.path = e.path
               ELSE ret.plan = InstallAndRun(arg.reply.version))

\* C4 as stated: for Latest the resolver always asks latest_version; without
\* force it returns UseInstalled of the highest installed version exactly
\* when that version is at least the remote latest, and InstallAndRun of the
\* remote latest otherwise.
C4_LatestAlwaysAsksRegistry ==
    (op = "resolve_run_plan" /\ arg.target.version.kind = "Latest") => LatestDecision

\* C4, amended: for Latest, whenever the installed catalog can be read the
\* resolver asks latest_version, and without force it returns UseInstalled of
\* the highest installed version exactly when that version is at least the
\* remote latest, and InstallAndRun of the remote latest otherwise; without
\* force, a catalog that cannot be read is an error returned before the
\* registry is asked.
C4_LatestComparesWithRemote ==
    (op = "resolve_run_plan" /\ arg.target.version.kind = "Latest") =>
        IF Listable(env, fs) THEN LatestDecision
        ELSE ~arg.force => (~ret.ok /\ ret.asked = <<>>)

\* installed 1.5.0 with remote 1.5.0 is used as it is
C4_CurrentInstalledUsed ==
    /\ op = "resolve_run_plan"
    /\ arg.target.version.kind = "Latest"
    /\ ~arg.force
    /\ arg.reply.ok
    /\ arg.reply.version = Version(1, 5, 0)
    /\ ret.plan = UseInstalled(Join(BinDir(env), N_150))
    /\ Len(ret.asked) = 1

\* C5: for Requirement(r) without force, if some installed version satisfies
\* r the resolver returns UseInstalled with the highest such version and asks
\* the registry nothing; if none does it asks highest_matching_version(crate,
\* r) and returns InstallAndRun of the version returned.
C5_RequirementPrefersInstalledMatch ==
    (/\ op = "resolve_run_plan"
     /\ arg.target.version.kind = "Requirement"
     /\ ~arg.force
     /\ Listable(env, fs)) =>
        \A matching \in { { e \in Installed(env, fs, arg.target.binary) :
                              ReqMatches(arg.target.version.req, e.version) } } :
            IF matching # {}
            THEN /\ ret.ok
                 /\ ret.plan.kind = "UseInstalled"
                 /\ \E e \in Newest(matching) : ret.plan.path = e.path
                 /\ ret.asked = <<>>
            ELSE /\ ret.asked = <<Query("highest_matching_version", arg.target.crate_name,
                                        SomeReq(arg.target.version.req))>>
                 /\ ret.ok = arg.reply.ok
                 /\ (ret.ok => ret.plan = InstallAndRun(arg.reply.version))

\* installed 1.0.0, 1.5.0 and 2.0.0 with ^1.0 selects 1.5.0, the registry not asked
C5_CaretSelectsHighestCompatible ==
    /\ op = "resolve_run_plan"
    /\ ~arg.force
    /\ arg.target.version = Requirement(<<Comparator("Caret", 1, 0, Absent, <<>>)>>)
    /\ { e.version : e \in Installed(env, fs, arg.target.binary) }
           = { Version(1, 0, 0), Version(1, 5, 0), Version(2, 0, 0) }
    /\ ret.plan = UseInstalled(Join(BinDir(env), N_150))
    /\ ret.asked = <<>>

----------------------------------------------------------------------------
(* The command line *)

\* the place of the first positional argument among the arguments after the
\* program name: it does not start with "-" and does not follow --bin; 0 if
\* there is none
FirstPositional(args) ==
    LET positional == { i \in 1..Len(args) :
                          ~StartsWith(args[i], T_dash) /\ (i = 1 \/ args[i - 1] # T_binflag) }
    IN  IF positional = {} THEN 0
        ELSE CHOOSE i \in positional : \A j \in positional : i <= j

\* the argument is a cluster of short flags with this letter in it
HasShort(t, letter) ==
    /\ StartsWith(t, T_dash)
    /\ ~StartsWith(t, T_dashdash)
    /\ \E i \in 2..Len(t) : t[i] = letter

\* C8: for every command line, the arguments handed to the executed binary
\* are exactly the arguments after the first positional argument (the crate
\* spec; an argument right after --bin is that flag's value), in their order
\* and unmodified, flags such as --help included (none when there is no
\* positional argument); only the arguments before
\* the crate spec are interpreted by cargox itself: its flags, its --bin and
\* its help come from there.
C8_ArgsAfterCrateSpecForwarded ==
    (pc # "start" /\ argv # <<>>) =>
        \A args \in { Tail(argv) } :
            \A at \in { FirstPositional(args) } :
                \A own \in { IF at = 0 THEN args ELSE SubSeq(args, 1, at - 1) },
                   handed \in { IF at = 0 THEN <<>> ELSE SubSeq(args, at + 1, Len(args)) } :
                    /\ \A k \in 1..Len(spawns) : spawns[k].args = handed
                    /\ (cli.exit = "none" => cli.args = handed)
                    /\ (cli.force =>
                           \E i \in 1..Len(own) : own[i] = T_force \/ HasShort(own[i], "f"))
                    /\ (cli.bin.some =>
                           \E i \in 1..Len(own) : own[i] = T_binflag \/ StartsWith(own[i], T_bineq))
                    /\ (cli.exit = "help" =>
                           own = <<>> \/ \E i \in 1..Len(own) : own[i] = T_help \/ HasShort(own[i], "h"))

\* "tool --help" and one more argument: the binary ran with --help handed on
C8_HelpHandedToBinary ==
    /\ pc = "done"
    /\ Len(argv) = 4
    /\ argv[2] = T_tool
    /\ argv[3] = T_help
    /\ Len(spawns) = 1
    /\ spawns[1].args = <<T_help, argv[4]>>
    /\ cli.exit = "none"

----------------------------------------------------------------------------
(* The run as a whole *)

\* what C12 says of every state of a run, expected being the path an
\* InstallAndRun plan is to execute: nothing is installed or spawned before
\* the plan is there; UseInstalled never installs; InstallAndRun installs
\* once, the planned version, and spawns only after the installer succeeded
\* and only the expected path; a spawn follows a passed containment check;
\* there is at most one spawn, and the run ends with the child's exit status
\* in hand
RunInOrder(expected) ==
    /\ Len(installs) <= 1
    /\ Len(spawns) <= 1
    /\ (installs # <<>> \/ spawns # <<>> => plan.kind # "none")
    /\ (plan.kind = "UseInstalled" => installs = <<>>)
    /\ (installs # <<>> =>
           /\ plan.kind = "InstallAndRun"
           /\ installs[1].binary = target.binary
           /\ installs[1].version = plan.version)
    /\ (plan.kind = "InstallAndRun" /\ pc \in { "installed", "done", "failed" }
           => Len(installs) = 1)
    /\ (plan.kind = "InstallAndRun" /\ spawns # <<>>
           => installs[1].ok /\ spawns[1].path = expected)
    /\ (spawns # <<>> => ResolvesInside(env, fs, spawns[1].path))
    /\ (pc = "done" => Len(spawns) = 1 /\ status \in Statuses)
    /\ (status # "none" => pc = "done")

\* the installer never runs once something was spawned, and a plan is not
\* made again once the installer ran or something was spawned
InstallBeforeSpawn ==
    /\ (installs' # installs => spawns = <<>> /\ spawns' = <<>>)
    /\ (installs # <<>> \/ spawns # <<>> => plan' = plan /\ asked' = asked)

\* C12 as stated: in every run the order is resolve, install (InstallAndRun
\* only), containment check, spawn; the installer runs exactly once with the
\* planned version before any spawn and a spawn needs its success; the path
\* executed is <install dir>/bin/<binary>-<version>; UseInstalled never
\* installs; at most one child is spawned and the run does not end before
\* the child has exited.
C12_ExecutesVersionedName ==
    /\ []RunInOrder(Join(BinDir(env), versioned_binary_name(target.binary, plan.version)))
    /\ [][InstallBeforeSpawn]_vars

\* C12, amended: the same, the path executed being
\* <install dir>/bin/<binary>-<version> with ".exe" appended on Windows.
C12_ExecutesVersionedPath ==
    /\ []RunInOrder(Join(BinDir(env),
                         versioned_binary_name(target.binary, plan.version)
                             \o (IF env.windows THEN T_exe ELSE <<>>)))
    /\ [][InstallBeforeSpawn]_vars

\* on Windows a version was installed and then run from its ".exe" path
C12_InstalledThenRan ==
    /\ pc = "done"
    /\ env.windows
    /\ plan.kind = "InstallAndRun"
    /\ installs = <<[binary |-> target.binary, version |-> plan.version, ok |-> TRUE]>>
    /\ Len(spawns) = 1
    /\ EndsWith(spawns[1].path[Len(spawns[1].path)], T_exe)

\* C13: in a run the resolver asks the registry at most once and never asks
\* again; when that lookup fails (registry unreachable, malformed data, no
\* published version satisfying the requirement) the run ends with that
\* error: no plan was made, the installer did not run, nothing was spawned.
C13_OneLookupFailureEndsRun ==
    /\ Len(asked) <= 1
    /\ \A i \in 1..Len(asked) :
          ~asked[i].reply.ok =>
              /\ pc = "failed"
              /\ plan = NoPlan
              /\ err = [msg |-> "registry lookup failed", cause |-> asked[i].reply.cause]
              /\ installs = <<>>
              /\ spawns = <<>>
              /\ status = "none"

\* a version is installed, none of the published ones satisfies the
\* requirement, and the run ended there
C13_NoMatchingVersionEndsRun ==
    /\ pc = "failed"
    /\ Len(asked) = 1
    /\ asked[1].query.op = "highest_matching_version"
    /\ asked[1].reply.cause = "no matching version"
    /\ Installed(env, fs, target.binary) # {}
    /\ installs = <<>>
    /\ spawns = <<>>

====
